---- MODULE Spec2Model ----
(***************************************************************************)
(* E-Voting Machine API (src/main.py): the voter, candidate and vote       *)
(* tables, the admin table, and the request handlers that read and write   *)
(* them.                                                                   *)
(*                                                                         *)
(* Every handler runs on its own database session, and handlers of         *)
(* different requests run concurrently.  A handler is modelled as a        *)
(* sequence of steps, one per statement sent to the database               *)
(* (a query, or the flush and commit of db.commit()); the Python code      *)
(* between two statements touches only the handler's own locals and is     *)
(* part of the step that precedes it.  A query reads the rows committed    *)
(* at the moment it runs.  A request is issued by its first statement.     *)
(*                                                                         *)
(* birth_date is carried by no check and no result the handlers compute    *)
(* from it, and is left out of the voter rows.                             *)
(***************************************************************************)
EXTENDS Integers, Sequences, FiniteSets, TLC

\* Number of requests issued in one behaviour.
MaxReq == 3

Requests == 1..MaxReq

\* Request bodies of POST /voter/register and POST /candidate/add.
VoterInputs == << [nid |-> "A1", name |-> "Alice"], [nid |-> "B2", name |-> "Bilal"] >>
CandidateInputs == << [name |-> "Bob", party |-> "PartyX"], [name |-> "Cara", party |-> "PartyY"] >>
Nids == {VoterInputs[i].nid : i \in 1..Len(VoterInputs)}

\* Outcomes of a request: the detail of the HTTPException raised, or Success.
Success == "ok"
DuplicateIdentity == "Voter already registered"
VoterNotFound == "Voter not found"
AlreadyVoted == "Voter has already voted"
CandidateNotFound == "Candidate not found"
\* db.commit() raising (a violated table constraint): the handler does not
\* catch it, the session is rolled back and the request fails.
IntegrityError == "IntegrityError"
\* db.commit() raising on a storage fault (the connection is lost, the disk is
\* full): not caught either.
OperationalError == "OperationalError"
VoterNotRegistered == "Voter not registered"
AdminNotFound == "Admin not found"
InvalidCredential == "Incorrect password"

\* Request bodies of POST /admin/login.
Emails == {"root@evote", "staff@evote", "guest@evote"}
Passwords == {"pw-root", "pw-staff"}

VARIABLES
    voters,      \* table voters: rows [id, nid, name, has_voted], in insertion order
    candidates,  \* table candidates: rows [id, name, party]
    votes,       \* table votes: rows [id, voter_id, candidate_id]
    admins,      \* table admins: rows [id, email, pass_field]
    req,         \* per request: its inputs, its position, its locals, its outcome
    issued,      \* history: what held when the request was issued
    observed     \* history: the ledgers committed while the request was in flight

vars == <<voters, candidates, votes, admins, req, issued, observed>>
tables == <<voters, candidates, votes, admins>>

NoRow == [id |-> 0]

\* Candidate ids a cast-vote request names: the ids of the roster, and the
\* next id the roster will assign (which no candidate has yet).
CandidateIds == 1..(Len(candidates) + 1)

NotIssued == [after |-> {}, registered |-> FALSE, voted |-> FALSE,
              candidate |-> FALSE, alone |-> FALSE]

Idle == [kind |-> "none", pc |-> "idle", nid |-> "", name |-> "", party |-> "",
         email |-> "", password |-> "", cid |-> 0, voter |-> NoRow, candidate |-> NoRow, rows |-> << >>,
         results |-> << >>, status |-> ""]

----------------------------------------------------------------------------
(* Queries *)

\* db.query(models.Voter).filter(models.Voter.nid == nid).first()
FindVoterByNid(nid) ==
    IF \E i \in 1..Len(voters) : voters[i].nid = nid
    THEN voters[CHOOSE i \in 1..Len(voters) :
                    /\ voters[i].nid = nid
                    /\ \A j \in 1..(i - 1) : voters[j].nid # nid]
    ELSE NoRow

\* db.query(models.Candidate).filter(models.Candidate.id == candidate_id).first()
FindCandidate(cid) ==
    IF \E i \in 1..Len(candidates) : candidates[i].id = cid
    THEN candidates[CHOOSE i \in 1..Len(candidates) : candidates[i].id = cid]
    ELSE NoRow

\* db.query(models.Admin).filter(models.Admin.email == admin.email).first()
FindAdminByEmail(email) ==
    IF \E i \in 1..Len(admins) : admins[i].email = email
    THEN admins[CHOOSE i \in 1..Len(admins) :
                    /\ admins[i].email = email
                    /\ \A j \in 1..(i - 1) : admins[j].email # email]
    ELSE NoRow

\* Mutant of CountVotesFor: the filter on candidate_id is missing.
CountVotesFor_Unfiltered(cid) == Len(votes)

\* db.query(models.Vote).filter(models.Vote.candidate_id == candidate.id).count()
CountVotesFor(cid) == Cardinality({i \in 1..Len(votes) : votes[i].candidate_id = cid})

----------------------------------------------------------------------------
(* Table definitions (models.py) *)

\* Column default of voters.has_voted.
HasVotedDefault == FALSE

\* Unique constraint on voters.nid: an insert of a second row with the nid fails.
NidTaken(nid) == \E i \in 1..Len(voters) : voters[i].nid = nid

\* Mutant of VoterIdTaken: the votes table has no unique constraint.
VoterIdTaken_Unconstrained(vid) == FALSE

\* Unique constraint on votes.voter_id: an insert of a second row for the voter fails.
VoterIdTaken(vid) == \E i \in 1..Len(votes) : votes[i].voter_id = vid

----------------------------------------------------------------------------
Init ==
    /\ \E nv \in 0..Len(VoterInputs) :
          voters = [i \in 1..nv |-> [id |-> i, nid |-> VoterInputs[i].nid,
                                     name |-> VoterInputs[i].name,
                                     has_voted |-> HasVotedDefault]]
    /\ \E nc \in 0..Len(CandidateInputs) :
          candidates = [i \in 1..nc |-> [id |-> i, name |-> CandidateInputs[i].name,
                                         party |-> CandidateInputs[i].party]]
    /\ votes = << >>
    /\ admins = << [id |-> 1, email |-> "root@evote", pass_field |-> "pw-root"],
                   [id |-> 2, email |-> "staff@evote", pass_field |-> "pw-staff"] >>
    /\ req = [r \in Requests |-> Idle]
    /\ issued = [r \in Requests |-> NotIssued]
    /\ observed = [r \in Requests |-> {}]

----------------------------------------------------------------------------
(* Requests *)

InFlight(r) == req[r].pc \notin {"idle", "done"}
Done(r) == req[r].pc = "done"

\* History kept for the request issued now (for a request that names a voter:
\* whether the voter was registered and had voted; for a cast-vote request:
\* whether its candidate was in the roster; for a register or results request:
\* whether no other request was in flight); the requests in flight are no
\* longer alone.
Issued(r, kind, nid, cid) ==
    [q \in Requests |->
        IF q = r
        THEN [after |-> IF kind \in {"register", "vote", "results"}
                        THEN {d \in Requests : Done(d)} ELSE {},
              registered |-> kind \in {"register", "vote"} /\ NidTaken(nid),
              voted |-> /\ kind = "vote" /\ FindVoterByNid(nid).id # 0
                        /\ FindVoterByNid(nid).has_voted,
              candidate |-> kind = "vote" /\ FindCandidate(cid).id # 0,
              alone |-> /\ kind \in {"register", "results"}
                        /\ \A o \in Requests : ~InFlight(o)]
        ELSE IF InFlight(q) THEN [issued[q] EXCEPT !.alone = FALSE] ELSE issued[q]]

\* The requests are issued in the order of their numbers.
MayIssue(r) ==
    /\ req[r].pc = "idle"
    /\ \A q \in 1..(r - 1) : req[q].pc # "idle"

Finish(fields, status) == [fields EXCEPT !.pc = "done", !.status = status]

\* The results requests in flight see the ledger as committed now.
Observe(ledger) ==
    [q \in Requests |->
        IF InFlight(q) /\ req[q].kind = "results" THEN observed[q] \cup {ledger}
        ELSE observed[q]]

\* The first statement of request r, which writes no table.
FirstStep(r, fields, nid, cid) ==
    /\ MayIssue(r)
    /\ req' = [req EXCEPT ![r] = fields]
    /\ issued' = Issued(r, fields.kind, nid, cid)
    /\ observed' = IF fields.kind = "results" THEN [observed EXCEPT ![r] = {votes}]
                   ELSE observed
    /\ UNCHANGED tables

\* A later statement of request r, which writes no table.
Step(r, fields) ==
    /\ req' = [req EXCEPT ![r] = fields]
    /\ UNCHANGED <<tables, issued, observed>>

----------------------------------------------------------------------------
(* POST /voter/register *)

\* Mutant of RegisterOutcome: an existing voter is not rejected.
RegisterOutcome_NoCheck(existing_voter) == ""

\* existing_voter = ...first(); if existing_voter: raise 400
RegisterOutcome(existing_voter) ==
    IF existing_voter.id # 0 THEN DuplicateIdentity ELSE ""

RegisterQuery(r, i) ==
    LET fields == [Idle EXCEPT !.kind = "register", !.nid = VoterInputs[i].nid,
                               !.name = VoterInputs[i].name]
        status == RegisterOutcome(FindVoterByNid(fields.nid))
    IN  FirstStep(r, IF status # "" THEN Finish(fields, status)
                     ELSE [fields EXCEPT !.pc = "commit"],
                  fields.nid, 0)

\* Mutant of NewVoter: the row is created with has_voted=True.
NewVoter_Voted(nid, name) ==
    [id |-> Len(voters) + 1, nid |-> nid, name |-> name, has_voted |-> TRUE]

\* new_voter = models.Voter(nid=..., name=..., birth_date=...)
NewVoter(nid, name) ==
    [id |-> Len(voters) + 1, nid |-> nid, name |-> name, has_voted |-> HasVotedDefault]

\* db.add(new_voter); db.commit(); db.refresh(new_voter); return
RegisterCommit(r) ==
    /\ req[r].kind = "register" /\ req[r].pc = "commit"
    /\ IF NidTaken(req[r].nid)
       THEN /\ req' = [req EXCEPT ![r] = Finish(req[r], IntegrityError)]
            /\ UNCHANGED voters
       ELSE /\ voters' = Append(voters, NewVoter(req[r].nid, req[r].name))
            /\ req' = [req EXCEPT ![r] = Finish(req[r], Success)]
    /\ UNCHANGED <<candidates, votes, admins, issued, observed>>

----------------------------------------------------------------------------
(* POST /candidate/add *)

\* new_candidate = models.Candidate(name=..., party=...)
NewCandidate(name, party) ==
    [id |-> Len(candidates) + 1, name |-> name, party |-> party]

\* db.add(new_candidate); db.commit(); db.refresh(new_candidate); return
AddCandidate(r, i) ==
    LET fields == [Idle EXCEPT !.kind = "add_candidate", !.name = CandidateInputs[i].name,
                               !.party = CandidateInputs[i].party]
    IN  /\ MayIssue(r)
        /\ candidates' = Append(candidates, NewCandidate(fields.name, fields.party))
        /\ req' = [req EXCEPT ![r] = Finish(fields, Success)]
        /\ issued' = Issued(r, fields.kind, "", 0)
        /\ UNCHANGED <<voters, votes, admins, observed>>

----------------------------------------------------------------------------
(* POST /vote/{nid}/{candidate_id} *)

\* Mutant of VoterOutcome: a missing voter is not rejected.
VoterOutcome_NoVoterCheck(voter) ==
    IF voter.id # 0 /\ voter.has_voted THEN AlreadyVoted ELSE ""

\* Mutant of VoterOutcome: has_voted is not checked before the candidate.
VoterOutcome_NoVotedCheck(voter) ==
    IF voter.id = 0 THEN VoterNotFound ELSE ""

\* Mutant of VoterOutcome: the has_voted test is inverted.
VoterOutcome_Inverted(voter) ==
    IF voter.id = 0 THEN VoterNotFound
    ELSE IF ~voter.has_voted THEN AlreadyVoted
    ELSE ""

\* if not voter: raise 404; if voter.has_voted: raise 400
VoterOutcome(voter) ==
    IF voter.id = 0 THEN VoterNotFound
    ELSE IF voter.has_voted THEN AlreadyVoted
    ELSE ""

VoteQueryVoter(r, nid, cid) ==
    LET fields == [Idle EXCEPT !.kind = "vote", !.nid = nid, !.cid = cid]
        voter == FindVoterByNid(nid)
        status == VoterOutcome(voter)
    IN  FirstStep(r, IF status # "" THEN Finish(fields, status)
                     ELSE [fields EXCEPT !.pc = "query_candidate", !.voter = voter],
                  nid, cid)

\* Mutant of CandidateOutcome: a missing candidate is not rejected.
CandidateOutcome_NoCheck(candidate) == ""

\* if not candidate: raise 404
CandidateOutcome(candidate) ==
    IF candidate.id = 0 THEN CandidateNotFound ELSE ""

VoteQueryCandidate(r) ==
    /\ req[r].kind = "vote" /\ req[r].pc = "query_candidate"
    /\ LET candidate == FindCandidate(req[r].cid)
           status == CandidateOutcome(candidate)
       IN  Step(r, IF status # "" THEN Finish(req[r], status)
                   ELSE [req[r] EXCEPT !.pc = "commit", !.candidate = candidate])

\* Mutant of NewVote: the two references are swapped.
NewVote_Swapped(voter, candidate) ==
    [id |-> Len(votes) + 1, voter_id |-> candidate.id, candidate_id |-> voter.id]

\* new_vote = models.Vote(voter_id=voter.id, candidate_id=candidate.id)
NewVote(voter, candidate) ==
    [id |-> Len(votes) + 1, voter_id |-> voter.id, candidate_id |-> candidate.id]

\* Mutant of AddVote: the row replaces the last row of the ledger.
AddVote_Overwrite(new_vote) ==
    IF votes = << >> THEN << new_vote >> ELSE [votes EXCEPT ![Len(votes)] = new_vote]

\* db.add(new_vote), flushed as an INSERT into votes
AddVote(new_vote) == Append(votes, new_vote)

\* Mutant of MarkVoted: the flag is never written.
MarkVoted_Forgotten(voter) == voters

\* voter.has_voted = True, flushed as an UPDATE of the voter's row
MarkVoted(voter) ==
    [i \in 1..Len(voters) |->
        IF voters[i].id = voter.id THEN [voters[i] EXCEPT !.has_voted = TRUE]
        ELSE voters[i]]

\* db.add(new_vote); voter.has_voted = True; db.commit(); return
VoteCommit(r) ==
    /\ req[r].kind = "vote" /\ req[r].pc = "commit"
    /\ IF VoterIdTaken(NewVote(req[r].voter, req[r].candidate).voter_id)
       THEN /\ req' = [req EXCEPT ![r] = Finish(req[r], IntegrityError)]
            /\ UNCHANGED <<voters, votes, observed>>
       ELSE /\ votes' = AddVote(NewVote(req[r].voter, req[r].candidate))
            /\ voters' = MarkVoted(req[r].voter)
            /\ req' = [req EXCEPT ![r] = Finish(req[r], Success)]
            /\ observed' = Observe(votes')
    /\ UNCHANGED <<candidates, admins, issued>>

----------------------------------------------------------------------------
(* GET /results *)

\* candidates = db.query(models.Candidate).all(); results = []
ResultsQueryCandidates(r) ==
    LET fields == [Idle EXCEPT !.kind = "results"]
    IN  FirstStep(r, IF candidates = << >> THEN Finish(fields, Success)
                     ELSE [fields EXCEPT !.pc = "count", !.rows = candidates],
                  "", 0)

\* results.append({"candidate": ..., "party": ..., "votes": vote_count})
ResultRow(candidate, vote_count) ==
    [candidate |-> candidate.name, party |-> candidate.party, votes |-> vote_count]

\* One turn of the loop: the count query of the next candidate.
ResultsCount(r) ==
    /\ req[r].kind = "results" /\ req[r].pc = "count"
    /\ LET candidate == req[r].rows[Len(req[r].results) + 1]
           results == Append(req[r].results, ResultRow(candidate, CountVotesFor(candidate.id)))
       IN  Step(r, IF Len(results) = Len(req[r].rows)
                   THEN [Finish(req[r], Success) EXCEPT !.results = results]
                   ELSE [req[r] EXCEPT !.results = results])

----------------------------------------------------------------------------
Next ==
    \E r \in Requests :
        \/ \E i \in 1..Len(VoterInputs) : RegisterQuery(r, i)
        \/ RegisterCommit(r)
        \/ \E i \in 1..Len(CandidateInputs) : AddCandidate(r, i)
        \/ \E nid \in Nids, cid \in CandidateIds : VoteQueryVoter(r, nid, cid)
        \/ VoteQueryCandidate(r)
        \/ VoteCommit(r)
        \/ ResultsQueryCandidates(r)
        \/ ResultsCount(r)

Spec == Init /\ [][Next]_vars

----------------------------------------------------------------------------
(* The handlers that only read *)

\* Mutant of NoCommit: the session commits a row it changed while reading.
NoCommit_Touched ==
    <<[i \in 1..Len(voters) |-> [voters[i] EXCEPT !.has_voted = TRUE]],
      candidates, votes, admins>>

\* The handler returns or raises without db.commit(); get_db closes the
\* session, and the tables are as they were.
NoCommit == tables

\* The first statement of a request r that only reads.
ReadFirst(r, fields) ==
    /\ MayIssue(r)
    /\ req' = [req EXCEPT ![r] = fields]
    /\ issued' = Issued(r, fields.kind, "", 0)
    /\ LET kept == NoCommit
       IN  /\ voters' = kept[1] /\ candidates' = kept[2]
           /\ votes' = kept[3] /\ admins' = kept[4]
    /\ UNCHANGED observed

\* A later statement of a request r that only reads.
ReadStep(r, fields) ==
    /\ req' = [req EXCEPT ![r] = fields]
    /\ LET kept == NoCommit
       IN  /\ voters' = kept[1] /\ candidates' = kept[2]
           /\ votes' = kept[3] /\ admins' = kept[4]
    /\ UNCHANGED <<issued, observed>>

\* GET /voter/check/{nid}
CheckVoterRegistration(r, nid) ==
    LET fields == [Idle EXCEPT !.kind = "check_voter", !.nid = nid]
        voter == FindVoterByNid(nid)
    IN  ReadFirst(r, IF voter.id = 0 THEN Finish(fields, VoterNotRegistered)
                     ELSE [Finish(fields, Success) EXCEPT !.results =
                              << [nid |-> voter.nid, name |-> voter.name,
                                  has_voted |-> voter.has_voted] >>])

\* GET /voterlist
VoterList(r) ==
    ReadFirst(r, [Finish([Idle EXCEPT !.kind = "voter_list"], Success) EXCEPT
                     !.results = voters])

\* GET /candidate/{candidate_id}
GetCandidate(r, cid) ==
    LET fields == [Idle EXCEPT !.kind = "get_candidate", !.cid = cid]
        candidate == FindCandidate(cid)
    IN  ReadFirst(r, IF candidate.id = 0 THEN Finish(fields, CandidateNotFound)
                     ELSE [Finish(fields, Success) EXCEPT !.results = << candidate >>])

\* GET /candidates: candidates = db.query(models.Candidate).all()
ListCandidatesQuery(r) ==
    LET fields == [Idle EXCEPT !.kind = "list_candidates"]
    IN  ReadFirst(r, IF candidates = << >> THEN Finish(fields, Success)
                     ELSE [fields EXCEPT !.pc = "count", !.rows = candidates])

\* One turn of the loop of GET /candidates: the count query of the next candidate.
ListCandidatesCount(r) ==
    /\ req[r].kind = "list_candidates" /\ req[r].pc = "count"
    /\ LET candidate == req[r].rows[Len(req[r].results) + 1]
           results == Append(req[r].results,
                             [id |-> candidate.id, name |-> candidate.name,
                              party |-> candidate.party,
                              vote_count |-> CountVotesFor(candidate.id)])
       IN  ReadStep(r, IF Len(results) = Len(req[r].rows)
                       THEN [Finish(req[r], Success) EXCEPT !.results = results]
                       ELSE [req[r] EXCEPT !.results = results])

\* Mutant of AdminOutcome: the password is compared before the admin is looked for.
AdminOutcome_SecretFirst(db_admin, password) ==
    IF db_admin.id = 0 \/ db_admin.pass_field # password THEN InvalidCredential
    ELSE ""

\* if not db_admin: raise 404; if db_admin.pass_field != admin.password: raise 401
AdminOutcome(db_admin, password) ==
    IF db_admin.id = 0 THEN AdminNotFound
    ELSE IF db_admin.pass_field # password THEN InvalidCredential
    ELSE ""

\* POST /admin/login
AdminLogin(r, email, password) ==
    LET fields == [Idle EXCEPT !.kind = "admin_login", !.email = email,
                               !.password = password]
        db_admin == FindAdminByEmail(email)
        status == AdminOutcome(db_admin, password)
    IN  ReadFirst(r, IF status # "" THEN Finish(fields, status)
                     ELSE [Finish(fields, Success) EXCEPT !.results =
                              << [admin_email |-> db_admin.email] >>])

\* The tables after some voters of VoterInputs registered, some candidates of
\* CandidateInputs were added, and the voters cast their votes one after the
\* other, each for the candidate choice gives it (0: the voter has not voted).
InitReads ==
    /\ \E nv \in 0..Len(VoterInputs), nc \in 0..Len(CandidateInputs) :
          \E choice \in [1..nv -> 0..nc] :
              LET voted == {i \in 1..nv : choice[i] # 0}
                  rank(i) == Cardinality({j \in voted : j <= i})
              IN  /\ voters = [i \in 1..nv |->
                                  [id |-> i, nid |-> VoterInputs[i].nid,
                                   name |-> VoterInputs[i].name,
                                   has_voted |-> i \in voted]]
                  /\ candidates = [i \in 1..nc |->
                                      [id |-> i, name |-> CandidateInputs[i].name,
                                       party |-> CandidateInputs[i].party]]
                  /\ votes = [k \in 1..Cardinality(voted) |->
                                 LET i == CHOOSE v \in voted : rank(v) = k
                                 IN  [id |-> k, voter_id |-> i, candidate_id |-> choice[i]]]
    /\ admins = << [id |-> 1, email |-> "root@evote", pass_field |-> "pw-root"],
                   [id |-> 2, email |-> "staff@evote", pass_field |-> "pw-staff"] >>
    /\ req = [r \in Requests |-> Idle]
    /\ issued = [r \in Requests |-> NotIssued]
    /\ observed = [r \in Requests |-> {}]

NextReads ==
    \E r \in Requests :
        \/ ResultsQueryCandidates(r)
        \/ ResultsCount(r)
        \/ \E nid \in Nids : CheckVoterRegistration(r, nid)
        \/ VoterList(r)
        \/ \E cid \in CandidateIds : GetCandidate(r, cid)
        \/ ListCandidatesQuery(r)
        \/ ListCandidatesCount(r)
        \/ \E email \in Emails, password \in Passwords : AdminLogin(r, email, password)

\* The handlers that only read, on the tables the handlers that write leave.
SpecReads == InitReads /\ [][NextReads]_vars

----------------------------------------------------------------------------
(* Storage faults *)

\* Mutant of RolledBack: the UPDATE of the flag outlives the failed commit.
RolledBack_FlagKept(pending) == <<pending[1], candidates, votes, admins>>

\* The session is closed without a commit (db.close() in get_db): the writes it
\* flushed, pending = <<voters, candidates, votes, admins>> as written, are
\* discarded.
RolledBack(pending) == tables

\* db.add(new_vote); voter.has_voted = True; db.commit() raises: the INSERT and
\* the UPDATE were flushed inside the transaction, which never commits.
VoteCommitFault(r) ==
    /\ req[r].kind = "vote" /\ req[r].pc = "commit"
    /\ LET kept == RolledBack(<<MarkVoted(req[r].voter), candidates,
                                AddVote(NewVote(req[r].voter, req[r].candidate)), admins>>)
       IN  /\ voters' = kept[1] /\ candidates' = kept[2]
           /\ votes' = kept[3] /\ admins' = kept[4]
    /\ req' = [req EXCEPT ![r] = Finish(req[r], OperationalError)]
    /\ UNCHANGED <<issued, observed>>

NextFault ==
    \E r \in Requests :
        \/ \E i \in 1..Len(VoterInputs) : RegisterQuery(r, i)
        \/ RegisterCommit(r)
        \/ \E i \in 1..Len(CandidateInputs) : AddCandidate(r, i)
        \/ \E nid \in Nids, cid \in CandidateIds : VoteQueryVoter(r, nid, cid)
        \/ VoteQueryCandidate(r)
        \/ VoteCommit(r)
        \/ VoteCommitFault(r)

\* The handlers that write, with a commit of cast vote that may fail.
SpecFault == Init /\ [][NextFault]_vars

----------------------------------------------------------------------------
(* Properties *)

VoteRowsOf(vid) == {i \in 1..Len(votes) : votes[i].voter_id = vid}
VoterRowsOf(nid) == {i \in 1..Len(voters) : voters[i].nid = nid}

\* Requests a and b ran concurrently: both have returned, and neither had
\* returned when the other was issued.
Concurrent(a, b) ==
    /\ a # b /\ Done(a) /\ Done(b)
    /\ a \notin issued[b].after /\ b \notin issued[a].after

\* a and b are the only requests of their kind for their nid.
OnlyPair(a, b) ==
    \A c \in Requests \ {a, b} : ~(req[c].kind = req[a].kind /\ req[c].nid = req[a].nid)

\* C1: in every reachable state a voter's has_voted flag is true if and only
\* if exactly one row of the votes table references that voter.
C1_HasVotedIffOneVote ==
    \A i \in 1..Len(voters) :
        voters[i].has_voted <=> Cardinality(VoteRowsOf(voters[i].id)) = 1

\* C1 witness: two cast-vote requests for one voter both reached their commit,
\* and the voter is flagged with a row in the ledger, beside a voter who has
\* not voted.
C1_Witness ==
    /\ \E a, b \in Requests :
          /\ req[a].kind = "vote" /\ req[b].kind = "vote" /\ req[a].nid = req[b].nid
          /\ req[a].status = Success /\ req[b].status = IntegrityError
    /\ \E i, j \in 1..Len(voters) :
          /\ voters[i].has_voted /\ VoteRowsOf(voters[i].id) # {}
          /\ ~voters[j].has_voted

\* C2 (as claimed): of two concurrent cast-vote requests for the same
\* registered voter who had not voted, each naming an existing candidate,
\* exactly one returns success and the other returns AlreadyVoted.
C2_OneSuccessOtherAlreadyVoted ==
    \A a, b \in Requests :
        ( /\ req[a].kind = "vote" /\ req[b].kind = "vote" /\ req[a].nid = req[b].nid
          /\ Concurrent(a, b) /\ OnlyPair(a, b)
          /\ issued[a].registered /\ ~issued[a].voted /\ issued[a].candidate
          /\ issued[b].registered /\ ~issued[b].voted /\ issued[b].candidate )
        => {req[a].status, req[b].status} = {Success, AlreadyVoted}

\* C3: in every reachable state the votes table holds at most one row per
\* voter, whatever cast-vote requests were issued for that voter.
C3_AtMostOneVotePerVoter ==
    \A i \in 1..Len(voters) : Cardinality(VoteRowsOf(voters[i].id)) <= 1

\* C3 witness: three cast-vote requests for one voter have returned, two of
\* them having run concurrently, and the voter has a row in the ledger.
C3_Witness ==
    \E a, b, c \in Requests :
        /\ a # c /\ b # c /\ Concurrent(a, b)
        /\ \A x \in {a, b, c} : req[x].kind = "vote" /\ req[x].nid = req[a].nid /\ Done(x)
        /\ req[a].status = Success /\ req[b].status = IntegrityError
        /\ req[c].status = AlreadyVoted
        /\ VoteRowsOf(FindVoterByNid(req[a].nid).id) # {}

\* C4 (as claimed): of two concurrent register-voter requests carrying the
\* same nid, not registered before, exactly one returns success, the other
\* returns DuplicateIdentity, and the voter table ends with one row for the nid.
C4_OneSuccessOtherDuplicate ==
    \A a, b \in Requests :
        ( /\ req[a].kind = "register" /\ req[b].kind = "register"
          /\ req[a].nid = req[b].nid
          /\ Concurrent(a, b) /\ OnlyPair(a, b)
          /\ ~issued[a].registered /\ ~issued[b].registered )
        => /\ {req[a].status, req[b].status} = {Success, DuplicateIdentity}
           /\ Cardinality(VoterRowsOf(req[a].nid)) = 1

\* The number of rows of a ledger that reference candidate cid.
RowsFor(ledger, cid) == Cardinality({i \in 1..Len(ledger) : ledger[i].candidate_id = cid})

RECURSIVE SumVotes(_)
SumVotes(results) ==
    IF results = << >> THEN 0 ELSE Head(results).votes + SumVotes(Tail(results))

\* Request r takes a step.
Steps(r) == req'[r] # req[r]
\* Request r returns in this step.
Returns(r) == ~Done(r) /\ req'[r].pc = "done"

\* C5: a results request that ran with no other request in flight reports,
\* for every candidate of the roster in roster order, the number of votes rows
\* referencing that candidate (0 included), and its counts sum to the number
\* of votes rows.
C5_QuietTallyMatchesLedger ==
    [][\A r \in Requests :
          (Returns(r) /\ req'[r].kind = "results" /\ issued'[r].alone)
          => /\ Len(req'[r].results) = Len(candidates')
             /\ \A i \in 1..Len(candidates') :
                   req'[r].results[i] =
                       [candidate |-> candidates'[i].name, party |-> candidates'[i].party,
                        votes |-> RowsFor(votes', candidates'[i].id)]
             /\ SumVotes(req'[r].results) = Len(votes')]_vars

\* C5 witness: a results request that ran alone has reported a candidate with
\* votes and a candidate with none.
C5_Witness ==
    \E r \in Requests :
        /\ req[r].kind = "results" /\ Done(r) /\ issued[r].alone
        /\ \E i, j \in 1..Len(req[r].results) :
              req[r].results[i].votes > 0 /\ req[r].results[j].votes = 0

\* C6 (as claimed): the counts a results request reports are the counts of
\* one ledger that was committed at some instant between its start and its end.
C6_TallyIsOneSnapshot ==
    \A r \in Requests :
        (req[r].kind = "results" /\ Done(r))
        => \E ledger \in observed[r] :
              \A i \in 1..Len(req[r].results) :
                  req[r].results[i].votes = RowsFor(ledger, req[r].rows[i].id)

\* C7: no step of a cast-vote request whose candidate id is not in the roster
\* changes the voter, candidate or vote table, and such a step never returns
\* success.
C7_UnknownCandidateNoEffect ==
    [][\A r \in Requests :
          (Steps(r) /\ req'[r].kind = "vote" /\ FindCandidate(req'[r].cid).id = 0)
          => tables' = tables /\ req'[r].status # Success]_vars

\* C7 witness: a cast-vote request of a registered voter who had not voted
\* has failed on a candidate id that is not in the roster.
C7_Witness ==
    \E r \in Requests :
        /\ req[r].kind = "vote" /\ req[r].status = CandidateNotFound
        /\ issued[r].registered /\ ~issued[r].voted
        /\ ~FindVoterByNid(req[r].nid).has_voted /\ votes = << >>

\* C8: a cast-vote request whose nid matches no registered voter returns
\* VoterNotFound at once and leaves the three tables unchanged, whether or not
\* its candidate id exists.
C8_UnknownVoterNoEffect ==
    [][\A r \in Requests :
          (req[r].pc = "idle" /\ req'[r].kind = "vote" /\ VoterRowsOf(req'[r].nid) = {})
          => /\ req'[r].pc = "done" /\ req'[r].status = VoterNotFound
             /\ tables' = tables]_vars

\* C8 witness: two cast-vote requests with an unregistered nid have failed, one
\* naming an existing candidate and one naming a missing candidate.
C8_Witness ==
    \E a, b \in Requests :
        /\ req[a].status = VoterNotFound /\ req[b].status = VoterNotFound
        /\ issued[a].candidate /\ ~issued[b].candidate

\* C9 (as claimed): a cast-vote request naming a registered voter and a
\* candidate id absent from the roster fails with CandidateNotFound whether or
\* not the voter has voted, and AlreadyVoted is returned only when the voter
\* and the candidate both exist.
C9_CandidateCheckedBeforeHasVoted ==
    \A r \in Requests :
        (req[r].kind = "vote" /\ Done(r))
        => /\ (issued[r].registered /\ FindCandidate(req[r].cid).id = 0)
                  => req[r].status = CandidateNotFound
           /\ req[r].status = AlreadyVoted
                  => (issued[r].registered /\ FindCandidate(req[r].cid).id # 0)

\* C9 (amended): the checks run in the order voter, has_voted, candidate.  A
\* request naming a registered voter who has voted fails with AlreadyVoted
\* whether or not its candidate id is in the roster; a request naming a
\* registered voter who has not voted and a candidate id absent from the roster
\* fails with CandidateNotFound; AlreadyVoted is returned only when the voter
\* exists and has voted, CandidateNotFound only when the voter exists and was
\* read as not having voted.
C9_HasVotedCheckedBeforeCandidate ==
    \A r \in Requests :
        (req[r].kind = "vote" /\ Done(r))
        => /\ (issued[r].registered /\ issued[r].voted) => req[r].status = AlreadyVoted
           /\ (issued[r].registered /\ ~issued[r].voted /\ FindCandidate(req[r].cid).id = 0)
                  => req[r].status = CandidateNotFound
           /\ req[r].status = AlreadyVoted => (issued[r].registered /\ issued[r].voted)
           /\ req[r].status = CandidateNotFound => (issued[r].registered /\ ~issued[r].voted)

\* C9 witness: a request of a voter who has voted, naming a candidate id that
\* is not in the roster, has failed with AlreadyVoted, and a request of a voter
\* who has not voted has failed with CandidateNotFound.
C9_Witness ==
    \E a, b \in Requests :
        /\ req[a].kind = "vote" /\ req[a].status = AlreadyVoted
        /\ FindCandidate(req[a].cid).id = 0
        /\ req[b].kind = "vote" /\ req[b].status = CandidateNotFound

\* Request a is a cast-vote request for nid that had returned success when
\* request b was issued.
VotedBefore(a, b, nid) ==
    /\ a \in issued'[b].after
    /\ req[a].kind = "vote" /\ req[a].nid = nid /\ req[a].status = Success

\* C10: a cast-vote request issued after a cast-vote request of the same voter
\* has returned success fails with AlreadyVoted and changes no table; and the
\* ledger holds for a voter whose request succeeded exactly one row, which
\* references the candidate of that request.
C10_SecondVoteRejected ==
    /\ [][\A a, b \in Requests :
             (req[b].pc = "idle" /\ req'[b].kind = "vote" /\ VotedBefore(a, b, req'[b].nid))
             => /\ req'[b].pc = "done" /\ req'[b].status = AlreadyVoted
                /\ tables' = tables]_vars
    /\ [](\A a \in Requests :
             (req[a].kind = "vote" /\ req[a].status = Success)
             => \E i \in 1..Len(votes) :
                   /\ VoteRowsOf(FindVoterByNid(req[a].nid).id) = {i}
                   /\ votes[i].candidate_id = req[a].cid)

\* C10 witness: A1 voted for Bob, then A1's vote for Cara failed with
\* AlreadyVoted, then the results were Bob 1, Cara 0.
C10_Witness ==
    \E a, b, r \in Requests :
        /\ req[a].kind = "vote" /\ req[a].nid = "A1" /\ req[a].status = Success
        /\ FindCandidate(req[a].cid).name = "Bob"
        /\ req[b].kind = "vote" /\ req[b].nid = "A1" /\ req[b].status = AlreadyVoted
        /\ FindCandidate(req[b].cid).id # 0 /\ FindCandidate(req[b].cid).name = "Cara"
        /\ a \in issued[b].after /\ b \in issued[r].after
        /\ req[r].kind = "results" /\ Done(r)
        /\ req[r].results = << [candidate |-> "Bob", party |-> "PartyX", votes |-> 1],
                               [candidate |-> "Cara", party |-> "PartyY", votes |-> 0] >>

\* C11: a voter's has_voted flag is false in the state in which its row
\* appears, and once it is true it is true in every later state: no step
\* resets it or removes the row.
C11_HasVotedMonotonic ==
    [][/\ \A i \in 1..Len(voters) :
             voters[i].has_voted => (i <= Len(voters') /\ voters'[i].has_voted)
       /\ \A i \in (Len(voters) + 1)..Len(voters') : ~voters'[i].has_voted]_vars

\* C11 witness: a voter registered by a request has voted since, and another
\* voter registered by a request has not.
C11_Witness ==
    \E a, b \in Requests :
        /\ req[a].kind = "register" /\ req[a].status = Success
        /\ req[b].kind = "vote" /\ req[b].status = Success
        /\ FindVoterByNid(req[b].nid).has_voted
        /\ ~FindVoterByNid(req[a].nid).has_voted

\* No cast-vote request other than those of ok overlaps request r for r's
\* voter: each was not issued, had returned when r was issued, or was issued
\* after r returned.
NoOtherVoteInFlight(r, ok) ==
    \A c \in Requests \ ok :
        (req[c].kind = "vote" /\ req[c].nid = req[r].nid)
        => (c \in issued[r].after \/ r \in issued[c].after)

\* Request r was issued for a registered voter who had not voted and for a
\* candidate of the roster.
Eligible(r) == issued[r].registered /\ ~issued[r].voted /\ issued[r].candidate

\* The ledger holds exactly one row for the voter of request r, and it
\* references r's candidate.
OneRowFor(r) ==
    \E i \in 1..Len(votes) :
        /\ VoteRowsOf(FindVoterByNid(req[r].nid).id) = {i}
        /\ votes[i].candidate_id = req[r].cid

\* C13: two concurrent cast-vote requests of two different registered voters
\* who had not voted, for the same existing candidate, both return success,
\* and the ledger then holds one row for each voter referencing that candidate.
C13_DifferentVotersBothSucceed ==
    \A a, b \in Requests :
        ( /\ req[a].kind = "vote" /\ req[b].kind = "vote"
          /\ req[a].nid # req[b].nid /\ req[a].cid = req[b].cid
          /\ Concurrent(a, b) /\ Eligible(a) /\ Eligible(b)
          /\ NoOtherVoteInFlight(a, {a}) /\ NoOtherVoteInFlight(b, {b}) )
        => /\ req[a].status = Success /\ req[b].status = Success
           /\ OneRowFor(a) /\ OneRowFor(b)

\* C13 witness: two such concurrent requests have returned success and the
\* candidate has two rows in the ledger.
C13_Witness ==
    \E a, b \in Requests :
        /\ req[a].kind = "vote" /\ req[b].kind = "vote"
        /\ req[a].nid # req[b].nid /\ req[a].cid = req[b].cid
        /\ Concurrent(a, b) /\ Eligible(a) /\ Eligible(b)
        /\ req[a].status = Success /\ req[b].status = Success
        /\ RowsFor(votes, req[a].cid) = 2

\* C14: a register-voter request for an nid already present returns
\* DuplicateIdentity at once and changes no table; a request for an nid not
\* present that runs with no other request in flight returns success and
\* appends exactly one voter row, with that nid and has_voted false; and no
\* two voter rows share an nid.
C14_RegisterChecksNid ==
    /\ [][\A r \in Requests :
             /\ (req[r].pc = "idle" /\ req'[r].kind = "register"
                    /\ VoterRowsOf(req'[r].nid) # {})
                => /\ req'[r].pc = "done" /\ req'[r].status = DuplicateIdentity
                   /\ tables' = tables
             /\ (Returns(r) /\ req[r].kind = "register" /\ issued[r].alone)
                => /\ req'[r].status = Success
                   /\ Len(voters') = Len(voters) + 1
                   /\ \A i \in 1..Len(voters) : voters'[i] = voters[i]
                   /\ voters'[Len(voters')].nid = req[r].nid
                   /\ ~voters'[Len(voters')].has_voted
                   /\ VoterRowsOf(req[r].nid) = {}
                   /\ candidates' = candidates /\ votes' = votes]_vars
    /\ [](\A i, j \in 1..Len(voters) : voters[i].nid = voters[j].nid => i = j)

\* C14 witness: one register-voter request has added a voter and a later one
\* for the same nid has failed with DuplicateIdentity.
C14_Witness ==
    \E a, b \in Requests :
        /\ req[a].kind = "register" /\ req[a].status = Success /\ issued[a].alone
        /\ req[b].kind = "register" /\ req[b].status = DuplicateIdentity
        /\ req[a].nid = req[b].nid /\ a \in issued[b].after
        /\ Cardinality(VoterRowsOf(req[a].nid)) = 1

\* C15: in every reachable state every row of the votes table references a
\* voter of the voter table and a candidate of the roster.
C15_VotesReferenceExistingRows ==
    \A i \in 1..Len(votes) :
        /\ \E v \in 1..Len(voters) : voters[v].id = votes[i].voter_id
        /\ \E c \in 1..Len(candidates) : candidates[c].id = votes[i].candidate_id

\* C15 witness: the ledger holds two rows, and one of them references a
\* candidate added by a request.
C15_Witness ==
    /\ Len(votes) = 2
    /\ \E a, b \in Requests :
          /\ req[a].kind = "add_candidate" /\ req[b].kind = "vote"
          /\ req[b].status = Success
          /\ FindCandidate(req[b].cid).id = Len(candidates)
          /\ Len(candidates) > Len(CandidateInputs)

\* C17: every step keeps every row of the votes table, with its voter and
\* candidate references, and every row of the candidate and voter tables, with
\* its id (and, for a voter, its nid): the tables only grow.
C17_AppendOnly ==
    [][/\ Len(votes) <= Len(votes')
       /\ \A i \in 1..Len(votes) : votes'[i] = votes[i]
       /\ Len(candidates) <= Len(candidates')
       /\ \A i \in 1..Len(candidates) : candidates'[i] = candidates[i]
       /\ Len(voters) <= Len(voters')
       /\ \A i \in 1..Len(voters) :
             voters'[i].id = voters[i].id /\ voters'[i].nid = voters[i].nid]_vars

\* C17 witness: the ledger has grown to two rows and the roster has grown by
\* a request.
C17_Witness ==
    /\ Len(votes) = 2
    /\ \E a \in Requests : req[a].kind = "add_candidate" /\ Done(a)

\* C18: a cast-vote request returns AlreadyVoted only if the ledger holds a
\* row for its voter; and a request of a registered voter who had not voted,
\* for a candidate of the roster, that no other cast-vote request for that
\* voter overlaps, returns success and leaves exactly one row for the voter,
\* referencing that candidate.
C18_AlreadyVotedOnlyAfterVote ==
    \A r \in Requests :
        (req[r].kind = "vote" /\ Done(r))
        => /\ req[r].status = AlreadyVoted
                  => VoteRowsOf(FindVoterByNid(req[r].nid).id) # {}
           /\ (Eligible(r) /\ NoOtherVoteInFlight(r, {r}))
                  => (req[r].status = Success /\ OneRowFor(r))

\* C18 witness: a voter's request has succeeded while another voter's request
\* was in flight, and a later request of the first voter got AlreadyVoted.
C18_Witness ==
    \E a, b, c \in Requests :
        /\ req[a].kind = "vote" /\ Eligible(a) /\ NoOtherVoteInFlight(a, {a})
        /\ req[a].status = Success
        /\ req[b].kind = "vote" /\ req[b].nid # req[a].nid /\ Concurrent(a, b)
        /\ req[c].kind = "vote" /\ req[c].nid = req[a].nid
        /\ req[c].status = AlreadyVoted

\* C12: whether or not commits of cast-vote requests fail, no state has a
\* votes row whose voter has has_voted false, or a voter with has_voted true
\* and no votes row; and the step in which a commit fails changes no table.
C12_FailedCommitLeavesNothing ==
    /\ [](\A i \in 1..Len(voters) :
             voters[i].has_voted <=> VoteRowsOf(voters[i].id) # {})
    /\ [][\A r \in Requests :
             (Returns(r) /\ req'[r].status = OperationalError) => tables' = tables]_vars

\* C12 witness: the commit of a voter's cast-vote request has failed, leaving
\* no row and no flag, and a later request of the voter has succeeded.
C12_Witness ==
    \E a, b \in Requests :
        /\ req[a].kind = "vote" /\ req[a].status = OperationalError
        /\ req[b].kind = "vote" /\ req[b].status = Success
        /\ req[a].nid = req[b].nid /\ a \in issued[b].after
        /\ ~issued[b].voted
        /\ \E c \in Requests : req[c].kind = "vote" /\ req[c].status = OperationalError
                                /\ ~FindVoterByNid(req[c].nid).has_voted

\* The admin rows with the email.
AdminRowsOf(email) == {i \in 1..Len(admins) : admins[i].email = email}

\* C16: admin login returns NotFound exactly when no admin row has the email
\* (whatever the secret), InvalidCredential exactly when a row has the email
\* and its stored secret differs from the supplied one, and success, with that
\* admin's email, exactly when the row's secret is the supplied one.
C16_AdminLoginOutcomes ==
    \A r \in Requests :
        (req[r].kind = "admin_login" /\ Done(r))
        => LET rows == AdminRowsOf(req[r].email)
               match == \E i \in rows : admins[i].pass_field = req[r].password
           IN  /\ req[r].status = AdminNotFound <=> rows = {}
               /\ req[r].status = InvalidCredential <=> (rows # {} /\ ~match)
               /\ req[r].status = Success <=> (rows # {} /\ match)
               /\ req[r].status = Success
                      => req[r].results = << [admin_email |-> req[r].email] >>

\* C16 witness: three logins have returned: one with an unknown email and a
\* secret some admin has, one with an admin's email and another admin's
\* secret, one with an admin's email and secret.
C16_Witness ==
    \E a, b, c \in Requests :
        /\ req[a].status = AdminNotFound
        /\ \E i \in 1..Len(admins) : admins[i].pass_field = req[a].password
        /\ req[b].status = InvalidCredential
        /\ \E i \in 1..Len(admins) : admins[i].pass_field = req[b].password
        /\ req[c].kind = "admin_login" /\ req[c].status = Success

ReadKinds == {"check_voter", "voter_list", "get_candidate", "list_candidates",
              "results", "admin_login"}

\* C19: no step of a check-voter, list-voters, get-candidate, list-candidates,
\* results or admin-login request changes the voter, candidate, vote or admin
\* table, whatever the request returns.
C19_ReadsChangeNoTable ==
    [][\A r \in Requests :
          (Steps(r) /\ req'[r].kind \in ReadKinds) => tables' = tables]_vars

\* C19 witness: on tables that hold voters, candidates and votes, a check-voter
\* request and a get-candidate request have failed and a list-candidates
\* request has returned its counts.
C19_Witness ==
    /\ votes # << >>
    /\ \E a, b, c \in Requests :
          /\ req[a].kind = "check_voter" /\ req[a].status = VoterNotRegistered
          /\ req[b].kind = "get_candidate" /\ req[b].status = CandidateNotFound
          /\ req[c].kind = "list_candidates" /\ Done(c) /\ req[c].results # << >>

====
